---------------------------- MODULE Spec2Model ----------------------------
(***************************************************************************)
(* A model of utils/post_process.py: the Detection worker process with its *)
(* bounded output queue (Detection, ONNXDetection, RKNNDetection), the     *)
(* PostProcess facade, the anchor generator make_anchors and the           *)
(* Visualizer that composites the masks over the frame.                    *)
(*                                                                         *)
(* Representation of the numeric data:                                     *)
(*   - a score and a raw mask value are floats of [0,1], held in           *)
(*     hundredths (0.1 is 10, 0.5 is 50);                                  *)
(*   - a normalized box coordinate is the rational n / BoxDen, held as n;  *)
(*   - an anchor component is a rational held as the pair <<num, den>>;    *)
(*   - an image is a function from pixel positions <<row, col>> (0-based,  *)
(*     as in numpy) to a value: a tag for a mask, <<c0, c1, c2>> for a     *)
(*     colour image;                                                       *)
(*   - a tensor of the network is the record of its slot in net_outputs,   *)
(*     the scene it was inferred from, and its axes.                       *)
(* input_size is 550 / 544 in the source; the model keeps the pyramid      *)
(* formula and scales the image down so that the anchor list stays small.  *)
(***************************************************************************)
EXTENDS Integers, Sequences, FiniteSets, TLC

VARIABLES
  onnx,            \* PostProcess(.., onnx) and Visualizer(onnx): the backend
  cfg,             \* Detection.cfg
  input_size,      \* Detection.input_size
  anchors,         \* RKNNDetection.anchors (flat list of numbers)
  input,           \* Detection.input : queue of (frame, net_outputs)
  q_out,           \* Detection.q_out : Queue(maxsize=3) of (frame, prepared)
  pc,              \* position of the worker in Detection.run
  frame,           \* Detection.run local
  inputs,          \* Detection.run local
  results,         \* Detection.run local
  prepared,        \* the value of self.prep_display(results) handed to put
  produced,        \* number of pairs the producer has put on the input queue
  taken,           \* history: tags of the frames the worker took, in order
  received,        \* history: tags of the frames get_outputs returned, in order
  cpc,             \* position of the consumer: "get" or "show"
  held,            \* the (frame, out) pair get_outputs returned last
  masks_semantic,  \* Visualizer.rknn_draw local: palette index per pixel
  shown            \* the image Visualizer.draw returned last

vars == << onnx, cfg, input_size, anchors, input, q_out, pc, frame, inputs,
           results, prepared, produced, taken, received, cpc, held,
           masks_semantic, shown >>

---------------------------------------------------------------------------
(* Bounds of the model *)

MaxFrames == 4
MaskH == 2
MaskW == 2
BoxDen == 4
MaxInst == 2
MaxInputSize == 24

(* Program constants *)

QOutMaxSize == 3

\* (138, 138, 3) in the source: the mask grid, scaled to MaskH x MaskW
MASK_SHAPE == << MaskH, MaskW, 3 >>

COLORS ==
  << <<0, 0, 0>>, <<244, 67, 54>>, <<233, 30, 99>>, <<156, 39, 176>>, <<103, 58, 183>>,
     <<100, 30, 60>>, <<63, 81, 181>>, <<33, 150, 243>>, <<3, 169, 244>>, <<0, 188, 212>>,
     <<20, 55, 200>>, <<0, 150, 136>>, <<76, 175, 80>>, <<139, 195, 74>>, <<205, 220, 57>>,
     <<70, 25, 100>>, <<255, 235, 59>>, <<255, 193, 7>>, <<255, 152, 0>>, <<255, 87, 34>>,
     <<90, 155, 50>>, <<121, 85, 72>>, <<158, 158, 158>>, <<96, 125, 139>>, <<15, 67, 34>>,
     <<98, 55, 20>>, <<21, 82, 172>>, <<58, 128, 255>>, <<196, 125, 39>>, <<75, 27, 134>>,
     <<90, 125, 120>>, <<121, 82, 7>>, <<158, 58, 8>>, <<96, 25, 9>>, <<115, 7, 234>>,
     <<8, 155, 220>>, <<221, 25, 72>>, <<188, 58, 158>>, <<56, 175, 19>>, <<215, 67, 64>>,
     <<198, 75, 20>>, <<62, 185, 22>>, <<108, 70, 58>>, <<160, 225, 39>>, <<95, 60, 144>>,
     <<78, 155, 120>>, <<101, 25, 142>>, <<48, 198, 28>>, <<96, 225, 200>>, <<150, 167, 134>>,
     <<18, 185, 90>>, <<21, 145, 172>>, <<98, 68, 78>>, <<196, 105, 19>>, <<215, 67, 84>>,
     <<130, 115, 170>>, <<255, 0, 255>>, <<255, 255, 0>>, <<196, 185, 10>>, <<95, 167, 234>>,
     <<18, 25, 190>>, <<0, 255, 255>>, <<255, 0, 0>>, <<0, 255, 0>>, <<0, 0, 255>>,
     <<155, 0, 0>>, <<0, 155, 0>>, <<0, 0, 155>>, <<46, 22, 130>>, <<255, 0, 155>>,
     <<155, 0, 255>>, <<255, 155, 0>>, <<155, 255, 0>>, <<0, 155, 255>>, <<0, 255, 155>>,
     <<18, 5, 40>>, <<120, 120, 255>>, <<255, 58, 30>>, <<60, 45, 60>>, <<75, 27, 244>>,
     <<128, 25, 70>> >>

COCO_CLASSES ==
  << "person", "bicycle", "car", "motorcycle", "airplane", "bus",
     "train", "truck", "boat", "traffic light", "fire hydrant", "stop sign",
     "parking meter", "bench", "bird", "cat", "dog", "horse",
     "sheep", "cow", "elephant", "bear", "zebra", "giraffe",
     "backpack", "umbrella", "handbag", "tie", "suitcase", "frisbee",
     "skis", "snowboard", "sports ball", "kite", "baseball bat", "baseball glove",
     "skateboard", "surfboard", "tennis racket", "bottle", "wine glass", "cup",
     "fork", "knife", "spoon", "bowl", "banana", "apple",
     "sandwich", "orange", "broccoli", "carrot", "hot dog", "pizza",
     "donut", "cake", "chair", "couch", "potted plant", "bed",
     "dining table", "toilet", "tv", "laptop", "mouse", "remote",
     "keyboard", "cell phone", "microwave", "oven", "toaster", "sink",
     "refrigerator", "book", "clock", "vase", "scissors", "teddy bear",
     "hair drier", "toothbrush" >>

Pix == (0 .. MaskH - 1) \X (0 .. MaskW - 1)

Max(a, b) == IF a >= b THEN a ELSE b
Min(a, b) == IF a <= b THEN a ELSE b

---------------------------------------------------------------------------
(* ONNXDetection *)

threshold == 10

\* the binarisation level of mask > 0.5
Half == 50

\* int(max(bbox[k] * dim, 0)) for the coordinate n / BoxDen
CropCoord(n, dim) == IF n * dim <= 0 THEN 0 ELSE (n * dim) \div BoxDen

\* crop(bbox, shape): the positions selected by (slice(y1, y2), slice(x1, x2))
\* in an array of shape[0] rows and shape[1] columns
crop(bbox, shape) ==
  LET x1 == CropCoord(bbox[1], shape[2])
      y1 == CropCoord(bbox[2], shape[1])
      x2 == CropCoord(bbox[3], shape[2])
      y2 == CropCoord(bbox[4], shape[1])
  IN  { p \in (0 .. shape[1] - 1) \X (0 .. shape[2] - 1) :
          /\ y1 <= p[1] /\ p[1] < y2
          /\ x1 <= p[2] /\ p[2] < x2 }

\* np.where(mask > 0.5, class_id + 1, 0).astype(np.uint8)
TagMask(mask, class_id) ==
  [p \in DOMAIN mask |-> IF mask[p] > Half THEN (class_id + 1) % 256 ELSE 0]

\* the tagged mask returned without cropping it to the box
CropMask_uncropped(mask, bbox) == mask

\* cropped = zeros; cropped[region] = mask[region]
CropMask(mask, bbox) ==
  LET region == crop(bbox, << MaskH, MaskW >>)
  IN  [p \in DOMAIN mask |-> IF p \in region THEN mask[p] ELSE 0]

\* the comparison made inclusive: a score at the threshold is dropped too
Dropped_inclusive(score) == threshold >= score

\* if self.threshold > score: continue
Dropped(score) == threshold > score

RECURSIVE PrepLoop(_, _, _, _)
PrepLoop(rows, masks, k, acc) ==
  IF k > Min(Len(rows), Len(masks)) THEN acc
  ELSE LET result == rows[k]
           bbox == result.bbox
           score == result.score
           class_id == result.class_id
       IN  IF Dropped(score) THEN PrepLoop(rows, masks, k + 1, acc)
           ELSE LET mask == TagMask(masks[k], class_id)
                    cropped == CropMask(mask, bbox)
                IN  PrepLoop(rows, masks, k + 1,
                      [bboxes    |-> Append(acc.bboxes, bbox),
                       scores    |-> Append(acc.scores, score),
                       class_ids |-> Append(acc.class_ids, class_id),
                       masks     |-> Append(acc.masks, cropped)])

\* results = (instances[1, N, 6], masks[N, H, W]); zip(results[0][0], results[1])
ONNX_prep_display(res) ==
  PrepLoop(res[1][1], res[2], 1,
           [bboxes |-> << >>, scores |-> << >>, class_ids |-> << >>, masks |-> << >>])

\* One raw tensor of the network: slot k of net_outputs, inferred from a scene
Tensor(k, scene) ==
  [slot |-> k, scene |-> scene, axes |-> << "N", "H", "W", "C" >>, softmax |-> FALSE]

NetOutputs(scene) ==
  << Tensor(0, scene), Tensor(1, scene), Tensor(2, scene), Tensor(3, scene) >>

\* t[0]: drops the leading axis
Index0(t) == [t EXCEPT !.axes = Tail(@)]

\* np.transpose(t, perm)
Transpose(t, perm) ==
  [t EXCEPT !.axes = [k \in 1 .. Len(perm) |-> t.axes[perm[k] + 1]]]

ONNX_permute(net_outputs) ==
  LET onnx_inputs == << Index0(net_outputs[1]), Index0(net_outputs[3]),
                        net_outputs[4], Index0(net_outputs[2]) >>
  IN  << Transpose(onnx_inputs[1], << 2, 0, 1 >>),
         Transpose(onnx_inputs[2], << 2, 0, 1 >>),
         onnx_inputs[3],
         Transpose(onnx_inputs[4], << 2, 0, 1 >>) >>

\* A raw mask of the decode graph: Lit where the predicate holds, Dim elsewhere
Lit == Half + 1
Dim == Half
RawMask(S) == [p \in Pix |-> IF p \in S THEN Lit ELSE Dim]

Row(bbox, score, class_id) == [bbox |-> bbox, score |-> score, class_id |-> class_id]

\* What the secondary decode graph (utils/postprocess_550x550.onnx) returns
\* for the scenes of the model: (instances[1, N, 6], masks[N, H, W])
OnnxScenes ==
  << << << << >> >>, << >> >>,
     << << << Row(<< 0, 0, BoxDen, BoxDen >>, threshold - 1, 0) >> >>,
        << RawMask(Pix) >> >>,
     << << << Row(<< 0, 0, BoxDen, BoxDen >>, threshold, 2),
              Row(<< 0, 0, BoxDen, BoxDen >>, threshold - 1, 4) >> >>,
        << RawMask(Pix), RawMask(Pix) >> >> >>

\* self.session.run(None, {...}): the graph is a function of its input tensors
ONNX_detect(onnx_inputs) == OnnxScenes[onnx_inputs[1].scene]

---------------------------------------------------------------------------
(* make_anchors and RKNNDetection *)

Strides == << 8, 16, 32, 64, 128 >>

\* math.ceil(a / b) for positive integers
Ceil(a, b) == (a + b - 1) \div b

\* sqrt of a rational whose numerator and denominator are perfect squares
Isqrt(n) == CHOOSE r \in 0 .. n : r * r = n
Sqrt(q) == << Isqrt(q[1]), Isqrt(q[2]) >>

RECURSIVE ArLoop(_, _, _, _, _, _)
ArLoop(c, scale, x, y, a, prior_data) ==
  IF a > Len(c.aspect_ratios) THEN prior_data
  ELSE LET ar == Sqrt(c.aspect_ratios[a])
           w == << scale * ar[1], ar[2] * c.img_size >>
           h == << scale * ar[2], ar[1] * c.img_size >>
       IN  ArLoop(c, scale, x, y, a + 1, prior_data \o << x, y, w, h >>)

\* n counts the pairs of product(range(conv_h), range(conv_w))
RECURSIVE CellLoop(_, _, _, _, _, _)
CellLoop(c, conv_h, conv_w, scale, n, prior_data) ==
  IF n >= conv_h * conv_w THEN prior_data
  ELSE LET j == n \div conv_w
           i == n % conv_w
           x == << 2 * i + 1, 2 * conv_w >>
           y == << 2 * j + 1, 2 * conv_h >>
       IN  CellLoop(c, conv_h, conv_w, scale, n + 1,
                    ArLoop(c, scale, x, y, 1, prior_data))

make_anchors(c, conv_h, conv_w, scale) ==
  CellLoop(c, conv_h, conv_w, scale, 0, << >>)

\* the side lengths by integer division instead of math.ceil
fpn_fm_shape_floor(size) == [s \in 1 .. Len(Strides) |-> size \div Strides[s]]

fpn_fm_shape(size) == [s \in 1 .. Len(Strides) |-> Ceil(size, Strides[s])]

RECURSIVE LevelLoop(_, _, _, _)
LevelLoop(c, shape, i, acc) ==
  IF i > Len(shape) THEN acc
  ELSE LevelLoop(c, shape, i + 1,
                 acc \o make_anchors(c, shape[i], shape[i], c.scales[i]))

\* self.anchors after RKNNDetection.__init__
RKNN_anchors(c, size) == LevelLoop(c, fpn_fm_shape(size), 1, << >>)

\* class_p = np_softmax(class_p): each row is normalised
np_softmax(t) == [t EXCEPT !.softmax = TRUE]

RKNN_permute(net_outputs) ==
  LET class_p == Index0(net_outputs[1])
      box_p   == Index0(net_outputs[2])
      coef_p  == Index0(net_outputs[3])
      proto_p == net_outputs[4]
  IN  << np_softmax(class_p), box_p, coef_p, proto_p >>

BoolMask(S) == [p \in Pix |-> IF p \in S THEN 1 ELSE 0]
LeftCol == { p \in Pix : p[2] = 0 }

None4 == [isNone |-> TRUE, ids_p |-> << >>, class_p |-> << >>,
          box_p |-> << >>, mask_p |-> << >>]

\* What utils.box_utils returns for the scenes of the model: nothing
\* survives, one instance, two overlapping instances
RknnScenes ==
  << None4,
     [isNone |-> FALSE, ids_p |-> << 0 >>, class_p |-> << 90 >>,
      box_p |-> << << 0, 0, 1, 1 >> >>, mask_p |-> << BoolMask(Pix) >>],
     [isNone |-> FALSE, ids_p |-> << 2, 4 >>, class_p |-> << 90, 80 >>,
      box_p |-> << << 0, 0, 1, 1 >>, << 0, 0, 0, 1 >> >>,
      mask_p |-> << BoolMask(Pix), BoolMask(LeftCol) >>] >>

\* nms_numpy(*inputs, anchors=self.anchors, cfg=self.cfg)
nms_numpy(class_p, box_p, coef_p, proto_p, anch, c) == RknnScenes[class_p.scene]

RKNN_detect(ins, anch, c) == nms_numpy(ins[1], ins[2], ins[3], ins[4], anch, c)

\* after_nms_numpy(*results, img_h, img_w, cfg): when no instance survives the
\* four results are None, the case rknn_draw tests with 'ids_p is None'
after_nms_numpy(res, img_h, img_w, c) == IF res.isNone THEN None4 ELSE res

RKNN_prep_display(res, size, c) == after_nms_numpy(res, size, size, c)

NumScenes == Len(OnnxScenes)

---------------------------------------------------------------------------
(* Visualizer *)

\* cv2.cvtColor(frame, cv2.COLOR_RGB2BGR)
cvtColor(img) == [p \in DOMAIN img |-> << img[p][3], img[p][2], img[p][1] >>]

\* cvRound(n / 10): round to nearest, ties to even
Round10(n) ==
  LET q == n \div 10
      r == n % 10
  IN  IF r < 5 THEN q
      ELSE IF r > 5 THEN q + 1
      ELSE IF q % 2 = 0 THEN q ELSE q + 1

\* cv2.addWeighted(a, wa / 10, b, wb / 10, 0) on uint8 images
addWeighted(a, wa, b, wb) ==
  [p \in DOMAIN a |->
     [ch \in 1 .. 3 |-> Min(255, Round10(wa * a[p][ch] + wb * b[p][ch]))]]

\* cv2.resize(img, (w, h)) from sh x sw: the nearest source pixel
resize(img, sh, sw, h, w) ==
  [p \in (0 .. h - 1) \X (0 .. w - 1) |->
     img[<< (p[1] * sh) \div h, (p[2] * sw) \div w >>]]

\* cv2.rectangle(img, (x1, y1), (x2, y2), color, thickness): the outline
rectangle(img, x1, y1, x2, y2, color) ==
  LET xa == Min(x1, x2)
      xb == Max(x1, x2)
      ya == Min(y1, y2)
      yb == Max(y1, y2)
      on(p) == /\ ya <= p[1] /\ p[1] <= yb /\ xa <= p[2] /\ p[2] <= xb
               /\ (p[1] = ya \/ p[1] = yb \/ p[2] = xa \/ p[2] = xb)
  IN  [p \in DOMAIN img |-> IF on(p) THEN color ELSE img[p]]

\* cv2.rectangle(..., -1): the filled rectangle
filledRectangle(img, x1, y1, x2, y2, color) ==
  [p \in DOMAIN img |->
     IF /\ Min(y1, y2) <= p[1] /\ p[1] <= Max(y1, y2)
        /\ Min(x1, x2) <= p[2] /\ p[2] <= Max(x1, x2)
     THEN color ELSE img[p]]

\* cv2.putText(img, text, (x, y), ...): the glyphs start at the origin pixel
putText(img, x, y, color) ==
  [p \in DOMAIN img |-> IF p = << y, x >> THEN color ELSE img[p]]

\* cv2.getTextSize(text_str, font, scale, thickness)[0]
TextSize == << 1, 1 >>

\* int(v) of the float n * dim / BoxDen: truncation toward zero
IntOf(n, dim) ==
  IF n * dim >= 0 THEN (n * dim) \div BoxDen ELSE -(((-n) * dim) \div BoxDen)

colors ==
  << <<0, 0, 0>>, <<172, 47, 117>>, <<192, 67, 251>>, <<195, 103, 9>>, <<211, 21, 242>>,
     <<36, 87, 70>>, <<216, 88, 140>>, <<58, 193, 230>>, <<39, 87, 174>>, <<88, 81, 165>>,
     <<25, 77, 72>>, <<9, 148, 115>>, <<208, 243, 197>>, <<254, 79, 175>>, <<192, 82, 99>>,
     <<216, 177, 243>>, <<29, 147, 147>>, <<142, 167, 32>>, <<193, 9, 185>>, <<127, 32, 31>>,
     <<202, 244, 151>>, <<163, 254, 203>>, <<114, 183, 28>>, <<34, 128, 128>>, <<164, 53, 133>>,
     <<38, 232, 244>>, <<17, 79, 132>>, <<105, 42, 186>>, <<31, 120, 1>>, <<65, 231, 169>>,
     <<57, 35, 102>>, <<119, 11, 174>>, <<82, 91, 128>>, <<142, 99, 53>>, <<140, 121, 170>>,
     <<84, 203, 68>>, <<6, 196, 47>>, <<127, 244, 131>>, <<204, 100, 180>>, <<232, 78, 143>>,
     <<148, 227, 186>>, <<23, 207, 141>>, <<117, 85, 48>>, <<49, 69, 169>>, <<163, 192, 95>>,
     <<197, 94, 0>>, <<113, 178, 36>>, <<162, 48, 93>>, <<131, 98, 42>>, <<205, 112, 231>>,
     <<149, 201, 127>>, <<0, 138, 114>>, <<43, 186, 127>>, <<23, 187, 130>>, <<121, 98, 62>>,
     <<163, 222, 123>>, <<195, 82, 174>>, <<227, 148, 209>>, <<50, 155, 14>>, <<41, 58, 193>>,
     <<36, 10, 86>>, <<43, 104, 11>>, <<2, 51, 80>>, <<32, 182, 128>>, <<38, 19, 174>>,
     <<42, 115, 184>>, <<188, 232, 77>>, <<30, 24, 125>>, <<2, 3, 94>>, <<226, 107, 13>>,
     <<112, 40, 72>>, <<19, 95, 72>>, <<154, 194, 248>>, <<180, 67, 236>>, <<61, 14, 96>>,
     <<4, 195, 237>>, <<139, 252, 86>>, <<205, 121, 109>>, <<75, 184, 16>>, <<152, 157, 149>>,
     <<110, 25, 208>> >>

\* get_colors(num): black, then num colours of the generator seeded with 0
get_colors(num) == SubSeq(colors, 1, num + 1)

\* for mask in masks: mask_image[filled] = color_mask[filled]
RECURSIVE PaintMasks(_, _, _, _)
PaintMasks(pal, masks, k, mask_image) ==
  IF k > Len(masks) THEN mask_image
  ELSE PaintMasks(pal, masks, k + 1,
         [p \in DOMAIN mask_image |->
            IF masks[k][p] # 0 THEN pal[masks[k][p] + 1] ELSE mask_image[p]])

RECURSIVE OnnxBoxes(_, _, _, _, _, _)
OnnxBoxes(img, bboxes, scores, class_ids, masks, k) ==
  IF k > Min(Min(Len(bboxes), Len(scores)), Min(Len(class_ids), Len(masks)))
  THEN img
  ELSE LET x1 == IntOf(bboxes[k][1], MaskW)
           y1 == IntOf(bboxes[k][2], MaskH)
           x2 == IntOf(bboxes[k][3], MaskW)
           y2 == IntOf(bboxes[k][4], MaskH)
           boxed == rectangle(img, x1, y1, x2, y2, << 255, 255, 0 >>)
       IN  OnnxBoxes(putText(boxed, x1, y1 - 5, << 0, 255, 0 >>),
                     bboxes, scores, class_ids, masks, k + 1)

\* onnx_draw without the test len(masks) > 0: the mask image is always blended
onnx_draw_unguarded(img, bboxes, scores, class_ids, masks) ==
  LET pal == get_colors(Len(COCO_CLASSES))
      zeros == [p \in Pix |-> << 0, 0, 0 >>]
      blended ==
        addWeighted(img, 5,
          resize(PaintMasks(pal, masks, 1, zeros),
                 MASK_SHAPE[1], MASK_SHAPE[2], MaskH, MaskW), 5)
  IN  OnnxBoxes(blended, bboxes, scores, class_ids, masks, 1)

\* Visualizer.onnx_draw(frame, bboxes, scores, class_ids, masks)
onnx_draw(img, bboxes, scores, class_ids, masks) ==
  LET pal == get_colors(Len(COCO_CLASSES))
      zeros == [p \in Pix |-> << 0, 0, 0 >>]
      blended ==
        IF Len(masks) > 0
        THEN addWeighted(img, 5,
               resize(PaintMasks(pal, masks, 1, zeros),
                      MASK_SHAPE[1], MASK_SHAPE[2], MaskH, MaskW), 5)
        ELSE img
  IN  OnnxBoxes(blended, bboxes, scores, class_ids, masks, 1)

\* (mask_p * (ids_p[:, None, None] + 1)).astype('int').sum(axis=0) at pixel p
RECURSIVE SumTags(_, _, _, _)
SumTags(ids_p, mask_p, p, k) ==
  IF k > Len(ids_p) THEN 0
  ELSE mask_p[k][p] * (ids_p[k] + 1) + SumTags(ids_p, mask_p, p, k + 1)

\* the modulus taken as the number of classes
Modulus_classes == Len(COCO_CLASSES)

\* the modulus of the '%' operation: len(COCO_CLASSES) - 1
Modulus == Len(COCO_CLASSES) - 1

\* masks_semantic of rknn_draw: the palette index of every pixel
MasksSemantic(ids_p, mask_p) ==
  [p \in Pix |-> SumTags(ids_p, mask_p, p, 1) % Modulus]

\* color = COLORS[ids_p[i] + 1]: the palette index of the box of instance i
BoxColorIndex(ids_p, i) == ids_p[i] + 1

\* for i in reversed(range(num_detected)): box, label background, label
RECURSIVE RknnBoxes(_, _, _, _)
RknnBoxes(img, ids_p, box_p, i) ==
  IF i < 1 THEN img
  ELSE LET x1 == box_p[i][1]
           y1 == box_p[i][2]
           x2 == box_p[i][3]
           y2 == box_p[i][4]
           color == COLORS[BoxColorIndex(ids_p, i) + 1]
           boxed == rectangle(img, x1, y1, x2, y2, color)
           label == filledRectangle(boxed, x1, y1, x1 + TextSize[1],
                                    y1 + TextSize[2] + 5, color)
       IN  RknnBoxes(putText(label, x1, y1 + 15, << 255, 255, 255 >>),
                     ids_p, box_p, i - 1)

\* Visualizer.rknn_draw(img_origin, ids_p, class_p, box_p, mask_p)
rknn_draw(img_origin, out) ==
  IF out.isNone THEN img_origin
  ELSE LET sem == MasksSemantic(out.ids_p, out.mask_p)
           color_masks == [p \in Pix |-> COLORS[sem[p] + 1]]
           img_fused == addWeighted(color_masks, 4, img_origin, 6)
       IN  RknnBoxes(img_fused, out.ids_p, out.box_p, Len(out.ids_p))

---------------------------------------------------------------------------
(* The queues *)

\* Queue() built without maxsize: never full
QueueFull_unbounded(q) == FALSE

\* Queue(maxsize=3): put blocks while the queue is full
QueueFull(q) == Len(q) >= QOutMaxSize

\* a put that pushes the item in front of the pending ones
QueuePut_front(q, item) == << item >> \o q

\* Queue.put: the item joins the tail
QueuePut(q, item) == Append(q, item)

\* Queue.get: the item at the head, and the queue it leaves
QueueGet(q) == << Head(q), Tail(q) >>

---------------------------------------------------------------------------
(* The state after construction *)

Blank == [p \in Pix |-> << 0, 0, 0 >>]

\* The frame tagged t, as captured (RGB)
NewFrame(t) == [tag |-> t, img |-> [p \in Pix |-> << 90, 120, 150 >>]]

DefaultCfg ==
  [aspect_ratios |-> << << 1, 1 >>, << 1, 4 >>, << 4, 1 >> >>,
   scales        |-> << 24, 48, 96, 192, 384 >>,
   img_size      |-> MaxInputSize]

EmptyOut == [bboxes |-> << >>, scores |-> << >>, class_ids |-> << >>, masks |-> << >>]

\* Locals of run, of the consumer and of rknn_draw before their first assignment
Unbound ==
  /\ frame = NewFrame(0)
  /\ inputs = << >>
  /\ results = << >>
  /\ prepared = << >>
  /\ held = << >>
  /\ masks_semantic = [p \in Pix |-> 0]
  /\ shown = Blank

\* PostProcess(queue, cfg, onnx) followed by PostProcess.run(): the worker
\* process is started and waits for its first input. input_size (550 for
\* ONNX, 544 for RKNN) is scaled to MaxInputSize.
Init ==
  /\ onnx \in BOOLEAN
  /\ cfg = DefaultCfg
  /\ input_size = MaxInputSize
  /\ anchors = IF onnx THEN << >> ELSE RKNN_anchors(cfg, input_size)
  /\ input = << >>
  /\ q_out = << >>
  /\ pc = "WAITING_INPUT"
  /\ produced = 0
  /\ taken = << >>
  /\ received = << >>
  /\ cpc = "get"
  /\ Unbound

---------------------------------------------------------------------------
(* The producer: puts (frame, raw_tensors) on the input queue *)

ProducerPut ==
  /\ produced < MaxFrames
  /\ \E scene \in 1 .. NumScenes :
       input' = Append(input, << NewFrame(produced + 1), NetOutputs(scene) >>)
  /\ produced' = produced + 1
  /\ UNCHANGED << onnx, cfg, input_size, anchors, q_out, pc, frame, inputs,
                  results, prepared, taken, received, cpc, held,
                  masks_semantic, shown >>

(* Detection.run, one action per statement of the loop body *)

\* a worker that fetches its next input while its put is still pending
WorkerGet_early ==
  /\ pc \in { "WAITING_INPUT", "PUBLISHING" }
  /\ input # << >>
  /\ frame' = Head(input)[1]
  /\ inputs' = Head(input)[2]
  /\ input' = Tail(input)
  /\ taken' = Append(taken, Head(input)[1].tag)
  /\ pc' = "NORMALIZING"
  /\ UNCHANGED << onnx, cfg, input_size, anchors, q_out, results, prepared,
                  produced, received, cpc, held, masks_semantic, shown >>

\* frame, inputs = self.input.get()
WorkerGet ==
  /\ pc = "WAITING_INPUT"
  /\ input # << >>
  /\ LET got == QueueGet(input)
     IN  /\ frame' = got[1][1]
         /\ inputs' = got[1][2]
         /\ input' = got[2]
         /\ taken' = Append(taken, got[1][1].tag)
  /\ pc' = "NORMALIZING"
  /\ UNCHANGED << onnx, cfg, input_size, anchors, q_out, results, prepared,
                  produced, received, cpc, held, masks_semantic, shown >>

\* inputs = self.permute(inputs)
WorkerPermute ==
  /\ pc = "NORMALIZING"
  /\ inputs' = IF onnx THEN ONNX_permute(inputs) ELSE RKNN_permute(inputs)
  /\ pc' = "DECODING"
  /\ UNCHANGED << onnx, cfg, input_size, anchors, input, q_out, frame, results,
                  prepared, produced, taken, received, cpc, held,
                  masks_semantic, shown >>

\* results = self.detect(inputs)
WorkerDetect ==
  /\ pc = "DECODING"
  /\ results' = IF onnx THEN ONNX_detect(inputs)
                ELSE RKNN_detect(inputs, anchors, cfg)
  /\ pc' = "COMPOSITING"
  /\ UNCHANGED << onnx, cfg, input_size, anchors, input, q_out, frame, inputs,
                  prepared, produced, taken, received, cpc, held,
                  masks_semantic, shown >>

\* self.prep_display(results), the argument of put
WorkerPrepDisplay ==
  /\ pc = "COMPOSITING"
  /\ prepared' = IF onnx THEN ONNX_prep_display(results)
                 ELSE RKNN_prep_display(results, input_size, cfg)
  /\ pc' = "PUBLISHING"
  /\ UNCHANGED << onnx, cfg, input_size, anchors, input, q_out, frame, inputs,
                  results, produced, taken, received, cpc, held,
                  masks_semantic, shown >>

\* put_nowait with queue.Full swallowed: a batch met by a full queue is dropped
WorkerPut_nowait ==
  /\ pc = "PUBLISHING"
  /\ q_out' = IF QueueFull(q_out) THEN q_out
              ELSE QueuePut(q_out, << frame, prepared >>)
  /\ pc' = "WAITING_INPUT"
  /\ UNCHANGED << onnx, cfg, input_size, anchors, input, frame, inputs, results,
                  prepared, produced, taken, received, cpc, held,
                  masks_semantic, shown >>

\* self.q_out.put((frame, prepared)): blocks while q_out is full
WorkerPut ==
  /\ pc = "PUBLISHING"
  /\ ~ QueueFull(q_out)
  /\ q_out' = QueuePut(q_out, << frame, prepared >>)
  /\ pc' = "WAITING_INPUT"
  /\ UNCHANGED << onnx, cfg, input_size, anchors, input, frame, inputs, results,
                  prepared, produced, taken, received, cpc, held,
                  masks_semantic, shown >>

Worker ==
  \/ WorkerGet
  \/ WorkerPermute
  \/ WorkerDetect
  \/ WorkerPrepDisplay
  \/ WorkerPut

(* The consumer: PostProcess.get_outputs, then Visualizer.show_frame *)

\* return self.detection.q_out.get()
GetOutputs ==
  /\ cpc = "get"
  /\ q_out # << >>
  /\ LET got == QueueGet(q_out)
     IN  /\ held' = got[1]
         /\ q_out' = got[2]
         /\ received' = Append(received, got[1][1].tag)
  /\ cpc' = "show"
  /\ UNCHANGED << onnx, cfg, input_size, anchors, input, pc, frame, inputs,
                  results, prepared, produced, taken, masks_semantic, shown >>

\* Visualizer.show_frame(frame, out): frame = self.draw(cvtColor(frame), *out)
ShowFrame ==
  /\ cpc = "show"
  /\ LET bgr == cvtColor(held[1].img)
         out == held[2]
     IN  IF onnx
         THEN /\ shown' = onnx_draw(bgr, out.bboxes, out.scores,
                                    out.class_ids, out.masks)
              /\ UNCHANGED masks_semantic
         ELSE /\ shown' = rknn_draw(bgr, out)
              /\ masks_semantic' = IF out.isNone THEN masks_semantic
                                   ELSE MasksSemantic(out.ids_p, out.mask_p)
  /\ cpc' = "get"
  /\ UNCHANGED << onnx, cfg, input_size, anchors, input, q_out, pc, frame,
                  inputs, results, prepared, produced, taken, received, held >>

Next ==
  \/ ProducerPut
  \/ WorkerGet
  \/ WorkerPermute
  \/ WorkerDetect
  \/ WorkerPrepDisplay
  \/ WorkerPut
  \/ GetOutputs
  \/ ShowFrame

Spec == Init /\ [][Next]_vars

\* The operating system schedules the worker process and the consumer
FairSpec ==
  /\ Spec
  /\ WF_vars(Worker)
  /\ WF_vars(GetOutputs)
  /\ WF_vars(ShowFrame)

---------------------------------------------------------------------------
(* ONNXDetection.prep_display on the results of the decode graph *)

Coords == { -1, 1, 3, 5 }
Boxes == Coords \X Coords \X Coords \X Coords
FullBox == << 0, 0, BoxDen, BoxDen >>
RawMasks == [Pix -> { Dim, Lit }]
Scores == { threshold - 1, threshold, threshold + 1 }
ClassIds == { 0, Len(COCO_CLASSES) - 1 }

\* one instance: every box and raw mask, scored at the threshold
OneInstance ==
  { << << << Row(b, threshold, c) >> >>, << m >> >> :
      b \in Boxes, c \in ClassIds, m \in RawMasks }

\* up to MaxInst instances of every score, each covering the whole mask
SomeRows == { Row(FullBox, s, c) : s \in Scores, c \in ClassIds }
ManyInstances ==
  { << << rows >>, [k \in DOMAIN rows |-> RawMask(Pix)] >> :
      rows \in UNION { [1 .. n -> SomeRows] : n \in 0 .. MaxInst } }

InitPrep ==
  /\ onnx = TRUE
  /\ cfg = DefaultCfg
  /\ input_size = MaxInputSize
  /\ anchors = << >>
  /\ input = << >>
  /\ q_out = << >>
  /\ pc = "COMPOSITING"
  /\ produced = 1
  /\ taken = << 1 >>
  /\ received = << >>
  /\ cpc = "get"
  /\ frame = NewFrame(1)
  /\ inputs = ONNX_permute(NetOutputs(1))
  /\ results \in OneInstance \cup ManyInstances
  /\ prepared = << >>
  /\ held = << >>
  /\ masks_semantic = [p \in Pix |-> 0]
  /\ shown = Blank

SpecPrep == InitPrep /\ [][WorkerPrepDisplay]_vars

---------------------------------------------------------------------------
(* RKNNDetection.__init__ on the configurations *)

AspectRatios ==
  { << >>, << << 1, 1 >> >>, << << 1, 1 >>, << 1, 4 >> >>,
    << << 1, 1 >>, << 1, 4 >>, << 4, 1 >> >> }
ScaleLists == { << 24, 48, 96, 192, 384 >>, << 3, 5, 7, 9, 11 >> }
ImgSizes == { 16, 24 }
Cfgs ==
  { [aspect_ratios |-> a, scales |-> s, img_size |-> z] :
      a \in AspectRatios, s \in ScaleLists, z \in ImgSizes }

\* RKNNDetection.__init__: self.anchors is filled level by level
RKNNInit ==
  /\ pc = "CONSTRUCTING"
  /\ anchors' = RKNN_anchors(cfg, input_size)
  /\ pc' = "WAITING_INPUT"
  /\ UNCHANGED << onnx, cfg, input_size, input, q_out, frame, inputs, results,
                  prepared, produced, taken, received, cpc, held,
                  masks_semantic, shown >>

InitAnchors ==
  /\ onnx = FALSE
  /\ cfg \in Cfgs
  /\ input_size \in 1 .. MaxInputSize
  /\ anchors = << >>
  /\ input = << >>
  /\ q_out = << >>
  /\ pc = "CONSTRUCTING"
  /\ produced = 0
  /\ taken = << >>
  /\ received = << >>
  /\ cpc = "get"
  /\ Unbound

SpecAnchors == InitAnchors /\ [][RKNNInit]_vars

---------------------------------------------------------------------------
(* Visualizer.rknn_draw on the results of after_nms_numpy *)

DrawMasks == { BoolMask(Pix), BoolMask(LeftCol), BoolMask({}) }
AllClasses == 0 .. Len(COCO_CLASSES) - 1
OverlapClasses == { 2, 4, 77, 78 }
WholeBox == << 0, 0, MaskW - 1, MaskH - 1 >>

Detected(ids, ms) ==
  [isNone |-> FALSE, ids_p |-> ids, class_p |-> [k \in DOMAIN ids |-> 90],
   box_p |-> [k \in DOMAIN ids |-> WholeBox], mask_p |-> ms]

DrawOne == { Detected(<< c >>, << m >>) : c \in AllClasses, m \in DrawMasks }
DrawMany ==
  UNION { { Detected(ids, ms) : ids \in [1 .. n -> OverlapClasses],
                                ms \in [1 .. n -> DrawMasks] } :
          n \in 2 .. MaxInst }

InitDraw ==
  /\ onnx = FALSE
  /\ cfg = DefaultCfg
  /\ input_size = MaxInputSize
  /\ anchors = RKNN_anchors(cfg, input_size)
  /\ input = << >>
  /\ q_out = << >>
  /\ pc = "WAITING_INPUT"
  /\ produced = 1
  /\ taken = << 1 >>
  /\ received = << 1 >>
  /\ cpc = "show"
  /\ frame = NewFrame(1)
  /\ inputs = RKNN_permute(NetOutputs(1))
  /\ results = None4
  /\ prepared \in { None4 } \cup DrawOne \cup DrawMany
  /\ held = << frame, prepared >>
  /\ masks_semantic = [p \in Pix |-> 0]
  /\ shown = Blank

SpecDraw == InitDraw /\ [][ShowFrame]_vars

---------------------------------------------------------------------------
(* Properties of the pipeline *)

IsPrefix(s, t) == Len(s) <= Len(t) /\ \A i \in 1 .. Len(s) : s[i] = t[i]

Tags(q) == [i \in 1 .. Len(q) |-> q[i][1].tag]

\* C1: at every moment the frames the consumer has received are a prefix of
\* the frames the worker took from the input queue: same order, nothing
\* duplicated, nothing skipped.
C1_FifoOrder == IsPrefix(received, taken)

C1_Witness == Len(received) >= 3 /\ Len(taken) > Len(received) /\ q_out # << >>

\* C2: q_out never holds more than 3 messages; while it holds 3 the worker
\* stays in its put with the same batch; and when the worker leaves the put
\* the batch has joined the tail of q_out.
C2_Backpressure ==
  /\ [](Len(q_out) <= 3)
  /\ [][(pc = "PUBLISHING" /\ Len(q_out) = 3)
          => (pc' = "PUBLISHING" /\ frame' = frame /\ prepared' = prepared)]_vars
  /\ [][(pc = "PUBLISHING" /\ pc' # "PUBLISHING")
          => q_out' = Append(q_out, << frame, prepared >>)]_vars

C2_Witness == Len(q_out) = 3 /\ pc = "PUBLISHING" /\ frame.tag = 4

StageOrder ==
  { << "WAITING_INPUT", "NORMALIZING" >>, << "NORMALIZING", "DECODING" >>,
    << "DECODING", "COMPOSITING" >>, << "COMPOSITING", "PUBLISHING" >>,
    << "PUBLISHING", "WAITING_INPUT" >> }

\* the inputs taken and not yet published
InFlight == Len(taken) - Len(q_out) - Len(received)

\* C8: the worker moves through WAITING_INPUT, NORMALIZING, DECODING,
\* COMPOSITING, PUBLISHING and back in that order only; it takes an input
\* only in WAITING_INPUT, so at most one input is in flight; and in every
\* stage it has a next step unless it waits for a queue.
C8_StageCycle ==
  /\ [][pc' # pc => << pc, pc' >> \in StageOrder]_vars
  /\ [][taken' # taken => (pc = "WAITING_INPUT" /\ pc' = "NORMALIZING")]_vars
  /\ [](InFlight \in { 0, 1 } /\ (InFlight = 1 <=> pc # "WAITING_INPUT"))
  /\ [](\/ pc = "WAITING_INPUT" /\ input = << >>
        \/ pc = "PUBLISHING" /\ Len(q_out) = 3
        \/ ENABLED Worker)

C8_Witness == pc = "COMPOSITING" /\ input # << >> /\ Len(taken) >= 2

\* C9: under fair scheduling every pair put on the input queue reaches the
\* consumer (again and again the consumer has received, in order, every
\* frame produced so far); every frame produced is at every moment in
\* exactly one place of the pipeline; and the worker never stays in its put
\* for ever.
C9_Delivery ==
  /\ [](received \o Tags(q_out)
          \o (IF pc = "WAITING_INPUT" THEN << >> ELSE << frame.tag >>)
          \o Tags(input)
        = [i \in 1 .. produced |-> i])
  /\ []<>(received = [i \in 1 .. produced |-> i])
  /\ []<>(pc # "PUBLISHING")

C9_Witness == produced = MaxFrames /\ received = [i \in 1 .. MaxFrames |-> i]

---------------------------------------------------------------------------
(* Properties of ONNXDetection.prep_display *)

\* C3: every detection prep_display returns has a score at or above the
\* threshold; the rows kept are exactly the rows whose score is not below
\* it, in their order, so a row scored at the threshold is kept.
C3_ScoreThreshold ==
  pc = "PUBLISHING" =>
    LET rows == results[1][1]
        kept == SelectSeq(rows, LAMBDA r : r.score >= threshold)
    IN  /\ \A k \in 1 .. Len(prepared.scores) : prepared.scores[k] >= threshold
        /\ prepared.scores = [k \in 1 .. Len(kept) |-> kept[k].score]
        /\ prepared.bboxes = [k \in 1 .. Len(kept) |-> kept[k].bbox]
        /\ prepared.class_ids = [k \in 1 .. Len(kept) |-> kept[k].class_id]
        /\ Len(prepared.masks) = Len(kept)

C3_Witness ==
  /\ pc = "PUBLISHING"
  /\ Len(results[1][1]) = 2
  /\ results[1][1][1].score = threshold - 1
  /\ results[1][1][2].score = threshold
  /\ prepared.scores = << threshold >>

\* max(floor(n * dim / BoxDen), 0)
BoxEdge(n, dim) == Max((n * dim) \div BoxDen, 0)

\* C4: in every mask prep_display returns, a non-zero pixel carries
\* class_id + 1, and a pixel outside the rows [y1, y2) and columns [x1, x2)
\* of the box is 0; the whole mask is 0 for a box with x2 <= x1 or y2 <= y1.
C4_MaskTagging ==
  pc = "PUBLISHING" =>
    \A k \in 1 .. Len(prepared.masks) :
      LET m == prepared.masks[k]
          b == prepared.bboxes[k]
          c == prepared.class_ids[k]
          rows == { y \in 0 .. MaskH - 1 :
                      BoxEdge(b[2], MaskH) <= y /\ y < BoxEdge(b[4], MaskH) }
          cols == { x \in 0 .. MaskW - 1 :
                      BoxEdge(b[1], MaskW) <= x /\ x < BoxEdge(b[3], MaskW) }
      IN  /\ \A p \in Pix : m[p] # 0 => m[p] = c + 1
          /\ \A p \in Pix : ~ (p[1] \in rows /\ p[2] \in cols) => m[p] = 0
          /\ (b[3] <= b[1] \/ b[4] <= b[2]) => \A p \in Pix : m[p] = 0

C4_Witness ==
  /\ pc = "PUBLISHING"
  /\ Len(prepared.masks) = 1
  /\ prepared.bboxes[1] = << 1, -1, 5, 3 >>
  /\ \A p \in Pix : results[2][1][p] = Lit
  /\ \E p, q \in Pix : prepared.masks[1][p] = 80 /\ prepared.masks[1][q] = 0

---------------------------------------------------------------------------
(* Properties of the anchors *)

\* ceil(size / stride): the least n with n * stride >= size
SideLength(size, stride) == CHOOSE n \in 0 .. size : n * stride >= size /\ (n - 1) * stride < size

RECURSIVE SumSquares(_, _)
SumSquares(L, n) == IF n = 0 THEN 0 ELSE L[n] * L[n] + SumSquares(L, n - 1)

\* C5: the anchor list holds k * (L0^2 + .. + L4^2) anchors of 4 numbers,
\* and the anchor of level l, row j, column i and aspect ratio a stands at
\* place ((j * Ll + i) * k + a) of its level: rows outer, columns inner,
\* aspect ratios innermost.
C5_AnchorCount ==
  pc = "WAITING_INPUT" =>
    LET L == [l \in 1 .. 5 |-> SideLength(input_size, Strides[l])]
        k == Len(cfg.aspect_ratios)
    IN  /\ Len(anchors) = 4 * (k * SumSquares(L, 5))
        /\ \A l \in 1 .. 5 : \A j \in 0 .. L[l] - 1 : \A i \in 0 .. L[l] - 1 :
             \A a \in 1 .. k :
               LET at == 4 * (k * SumSquares(L, l - 1) + (j * L[l] + i) * k + (a - 1))
                   ar == cfg.aspect_ratios[a]
                   sn == Isqrt(ar[1])
                   sd == Isqrt(ar[2])
               IN  /\ anchors[at + 1] = << 2 * i + 1, 2 * L[l] >>
                   /\ anchors[at + 2] = << 2 * j + 1, 2 * L[l] >>
                   /\ anchors[at + 3] = << cfg.scales[l] * sn, sd * cfg.img_size >>
                   /\ anchors[at + 4] = << cfg.scales[l] * sd, sn * cfg.img_size >>

C5_Witness ==
  /\ pc = "WAITING_INPUT"
  /\ ~ onnx
  /\ Len(cfg.aspect_ratios) = 3
  /\ input_size = 20
  /\ Len(anchors) = 4 * (3 * (9 + 4 + 1 + 1 + 1))

---------------------------------------------------------------------------
(* Properties of the Visualizer *)

RECURSIVE SumOver(_, _)
SumOver(S, ids) ==
  IF S = { } THEN 0
  ELSE LET i == CHOOSE i \in S : TRUE
       IN  (ids[i] + 1) + SumOver(S \ { i }, ids)

Covering(out, p) == { i \in 1 .. Len(out.ids_p) : out.mask_p[i][p] # 0 }

Drawn == cpc = "get" /\ ~ onnx /\ received # << >> /\ ~ held[2].isNone

\* C6: the palette index rknn_draw uses for a pixel is the sum of
\* class_id + 1 over the instances covering it, modulo 79 (the number of
\* classes less one), and is an index of COLORS.
C6_OverlapIndex ==
  Drawn =>
    \A p \in Pix :
      /\ masks_semantic[p] = SumOver(Covering(held[2], p), held[2].ids_p) % 79
      /\ Len(COCO_CLASSES) - 1 = 79
      /\ masks_semantic[p] \in 0 .. Len(COLORS) - 1

C6_Witness ==
  /\ Drawn
  /\ held[2].ids_p = << 2, 4 >>
  /\ \E p \in Pix : Covering(held[2], p) = { 1, 2 } /\ masks_semantic[p] = 8

\* C10: a pixel covered by one instance of class c alone gets the palette
\* index c + 1, the index of the colour of its box, never the background 0.
C10_SingleInstanceIndex ==
  (Drawn /\ Len(held[2].ids_p) = 1) =>
    \A p \in Pix :
      Covering(held[2], p) = { 1 } =>
        /\ masks_semantic[p] = held[2].ids_p[1] + 1
        /\ masks_semantic[p] = BoxColorIndex(held[2].ids_p, 1)
        /\ masks_semantic[p] # 0

\* the results of thresholding that leave no instance
NoSurvivor(res) == \A k \in 1 .. Len(res[1][1]) : res[1][1][k].score < threshold

IsEmptyOut(out) == IF onnx THEN out = EmptyOut ELSE out.isNone

\* C7: when no instance survives the threshold prep_display returns four
\* empty sequences; the worker publishes the message of every input it took,
\* empty or not; and the renderer given an empty result (empty lists for
\* onnx_draw, ids_p None for rknn_draw) returns the frame it was given.
C7_EmptyResult ==
  /\ (onnx /\ pc = "PUBLISHING" /\ NoSurvivor(results)) => prepared = EmptyOut
  /\ pc = "WAITING_INPUT" => taken = received \o Tags(q_out)
  /\ \A i \in 1 .. Len(q_out) : q_out[i][1] = NewFrame(q_out[i][1].tag)
  /\ (cpc = "get" /\ received # << >> /\ IsEmptyOut(held[2]))
       => shown = cvtColor(held[1].img)

C7_Witness ==
  /\ onnx
  /\ pc = "PUBLISHING" /\ Len(results[1][1]) = 1 /\ prepared = EmptyOut
  /\ cpc = "get" /\ received # << >> /\ held[2] = EmptyOut
  /\ shown = cvtColor(NewFrame(1).img)
  /\ \E i \in 1 .. Len(q_out) : q_out[i][2] = EmptyOut

===========================================================================
